---- MODULE Spec2Model ----
(***************************************************************************)
(* Hierarchical agent teams: a root team graph whose workers are nested    *)
(* team graphs (research, writing, adaptive RAG), each a supervisor that   *)
(* routes to one worker at a time, driven from the websocket handler       *)
(* ws_stream.                                                              *)
(***************************************************************************)
EXTENDS Integers, Sequences, FiniteSets, TLC

VARIABLES
    wsPc,     \* position of ws_stream: "init" (accepted, waiting for the prompt),
              \* "streaming" (inside its try block), "closed" (returned),
              \* "escaped" (left by an exception)
    events,   \* the event records ws_stream sent to the client, in order
    cbEvents, \* the event records the model callbacks sent to the client
    graph,    \* graph[l]: the team graph running at level l ("none": no graph)
    st,       \* st[l]: the State of the graph at level l
    step,     \* step[l]: node executions (supersteps) the graph at level l completed
    pc,       \* pc[l]: the nodes scheduled for the next superstep
    status,   \* status[l]: "idle", "pending", "done", "out_of_steps", "error"
    fault,    \* the exception that ended the run ("none": none was raised)
    lastSup,  \* what the most recent supervisor_node call did
    conn,     \* the client's end of the websocket: "open" or "gone"
    retriever, \* the module-level vectorstore and retriever of nodes.py
    call      \* a function of nodes.py applied on its own: input and result

vars == <<wsPc, events, cbEvents, graph, st, step, pc, status, fault, lastSup, conn, retriever, call>>

(* ------------------------------ bounds -------------------------------- *)

\* The step budget a run is given (ws_stream passes 50, and a nested graph
\* invoked from a node runs under the configuration of the run around it);
\* the loop is the same for every budget, and the model runs it with a small
\* one.
RecursionLimit == 4

\* The prompts a client may send, the texts an agent may answer with and the
\* document lists the retriever may return.
Prompts == {"p1", "p2"}
Contents == {"a1", "a2"}
DocLists == {<<>>, <<"d1">>, <<"d1", "d2">>}

\* The documents, questions and longest document list a function of nodes.py
\* is applied to on its own.
Docs == {"d1", "d2", "d3"}
Questions == {"q1", "q2"}
Rewrites == {"r1", "r2"}
Generations == {"g1"}
MaxDocs == 3

(* ----------------------------- constants ------------------------------ *)

START == "__start__"
END == "__end__"
FINISH == "FINISH"
Unset == "__unset__"       \* a State key that holds no value (next)
UnsetSeq == <<"__unset__">> \* the same, for question and documents
NoValue == "__none__"      \* the classifier returned nothing usable
Throw == "__raise__"       \* a call raised

Levels == {"root", "sub"}

Last(s) == s[Len(s)]
Range(s) == {s[i] : i \in DOMAIN s}

(* ------------------------------ State --------------------------------- *)

HumanMessage(content, name) == [role |-> "human", name |-> name, content |-> content]

SystemMessage(prompt) == [role |-> "system", name |-> Unset, content |-> <<prompt>>]

\* class State(MessagesState): messages, next, question, documents
State(messages) ==
    [messages |-> messages, next |-> Unset, question |-> UnsetSeq, documents |-> UnsetSeq]

BlankState == State(<<>>)

(* --------------------------- the team graphs -------------------------- *)

Graphs == {"root", "research", "writing", "rag"}

\* The RAG team is built without its generate worker.
Members_NoGenerate(g) ==
    CASE g = "root" -> <<"research_team", "writing_team", "adaptive_rag_team">>
      [] g = "research" -> <<"search", "web_scraper">>
      [] g = "writing" -> <<"doc_writer", "outline_taker", "chart_generator">>
      [] g = "rag" -> <<"retrieve", "grade_documents", "transform_query">>

Members(g) ==
    CASE g = "root" -> <<"research_team", "writing_team", "adaptive_rag_team">>
      [] g = "research" -> <<"search", "web_scraper">>
      [] g = "writing" -> <<"doc_writer", "outline_taker", "chart_generator">>
      [] g = "rag" -> <<"retrieve", "grade_documents", "transform_query", "generate">>

\* The system prompt each supervisor is made with.
Prompt(g) ==
    CASE g = "root" -> "root_supervisor_prompt"
      [] g = "rag" -> "rag_supervisor_prompt"
      [] OTHER -> "default_prompt"

\* The graph each root worker builds and invokes.
TeamGraph(team) ==
    CASE team = "research_team" -> "research"
      [] team = "writing_team" -> "writing"
      [] team = "adaptive_rag_team" -> "rag"

\* builder.add_edge(...): every graph has START -> supervisor, the root graph
\* also supervisor -> END.
StaticEdges(g) ==
    {<<START, "supervisor">>} \cup (IF g = "root" THEN {<<"supervisor", END>>} ELSE {})

\* A static edge into END ends the run whatever the node's Command says.
NextNodes_EndEdgeWins(g, node, gotos) ==
    LET static == {e[2] : e \in {d \in StaticEdges(g) : d[1] = node}}
    IN  IF END \in static THEN {} ELSE (static \cup gotos) \ {END}

\* The nodes scheduled after `node` ran and returned Command(goto=gotos): the
\* targets of its static edges and of its Command; END is no node, so an edge
\* or a goto into END schedules nothing, and a graph with nothing scheduled is
\* finished.
NextNodes(g, node, gotos) ==
    LET static == {e[2] : e \in {d \in StaticEdges(g) : d[1] = node}}
    IN  (static \cup gotos) \ {END}

(* --------------------------- supervisor_node -------------------------- *)

\* options = ["FINISH"] + members
options(ms) == <<FINISH>> \o ms

\* One Router schema shared by every team: the names of all graphs.
Router_Shared(ms) ==
    UNION {Range(options(Members(g))) : g \in Graphs}

\* class Router: next is Literal[*options]; the structured-output classifier
\* answers with one of these.
Router(ms) == Range(options(ms))

\* What one classifier call may do: answer, answer nothing usable, or raise.
ClassifierOutcomes(ms) == Router(ms) \cup {NoValue, Throw}

\* The retry is given the whole context again.
RetryContext_Full(messages) == messages

\* [messages[-1]]: the context of the second classifier call.
RetryContext(messages) == <<Last(messages)>>

\* The answer is used as it is.
Directive_NoEnd(response) ==
    IF response # NoValue THEN response ELSE FINISH

\* goto = response["next"] if response else "FINISH"; FINISH becomes END.
Directive(response) ==
    LET goto == IF response # NoValue THEN response ELSE FINISH
    IN  IF goto = FINISH THEN END ELSE goto

\* next keeps the classifier's word for the terminal directive.
SupervisorCommand_Raw(goto) ==
    [goto |-> goto, update |-> [next |-> IF goto = END THEN FINISH ELSE goto]]

\* Command(goto=goto, update={"next": goto})
SupervisorCommand(goto) == [goto |-> goto, update |-> [next |-> goto]]

\* supervisor_node(state) with the outcomes c1, c2 of the classifier's first
\* and second call (c2 is read only when the first call gave nothing usable).
supervisor_node(prompt, state, c1, c2) ==
    IF Len(state.messages) = 0
    THEN \* state["messages"][-1] on an empty list raises IndexError
         [raised |-> TRUE, raised_with |-> "IndexError", calls |-> <<>>,
          command |-> SupervisorCommand(Unset)]
    ELSE LET messages == <<SystemMessage(prompt)>> \o <<Last(state.messages)>>
             first == [context |-> messages, result |-> c1]
             second == [context |-> RetryContext(messages), result |-> c2]
         IN  IF c1 = Throw
             THEN [raised |-> TRUE, raised_with |-> "ClassifierError",
                   calls |-> <<first>>, command |-> SupervisorCommand(Unset)]
             ELSE IF c1 # NoValue
             THEN [raised |-> FALSE, raised_with |-> "none",
                   calls |-> <<first>>, command |-> SupervisorCommand(Directive(c1))]
             ELSE IF c2 = Throw
             THEN [raised |-> TRUE, raised_with |-> "ClassifierError",
                   calls |-> <<first, second>>, command |-> SupervisorCommand(Unset)]
             ELSE [raised |-> FALSE, raised_with |-> "none",
                   calls |-> <<first, second>>,
                   command |-> SupervisorCommand(Directive(c2))]

NoSupervisorYet ==
    [level |-> "none", graph |-> "none", raised |-> FALSE, calls |-> <<>>,
     goto |-> Unset, before |-> BlankState]

(* ---------------------------- the run loop ---------------------------- *)

\* The budget is checked one step late.
OutOfSteps_Late(n) == n > RecursionLimit

\* The graph loop stops with a recursion error once `n` supersteps are done.
OutOfSteps(n) == n >= RecursionLimit

\* How the loop stands after a superstep: n supersteps done, `scheduled` next.
\* A graph that finishes with the very step that uses the budget up ends
\* either way, depending on the graph library's version.
LoopStatus(n, scheduled) ==
    IF OutOfSteps(n)
    THEN IF scheduled = {} THEN {"done", "out_of_steps"} ELSE {"out_of_steps"}
    ELSE IF scheduled = {} THEN {"done"} ELSE {"pending"}

\* A graph goes on while a graph it invoked is running.
Active_NoWait(l) ==
    /\ wsPc = "streaming"
    /\ status[l] = "pending"

\* The level whose graph is executing: the nested graph while it runs.
Active(l) ==
    /\ wsPc = "streaming"
    /\ status[l] = "pending"
    /\ l = "root" => status["sub"] = "idle"

StateEvent(node) == [event |-> "state", data |-> node]
LogEvent(text) == [event |-> "log", data |-> text]

\* WebSocketCallbackHandler: on_llm_new_token sends a token event, on_llm_end
\* sends {"event": "done"} (a record without data).
TokenEvent == [event |-> "token", data |-> "tok"]
DoneEvent == [event |-> "done", data |-> Unset]

\* The event records the callbacks send for n streamed model calls that
\* returned: tokens, and the end of the call.
LlmEvents(n) == IF n = 0 THEN {} ELSE {TokenEvent, DoneEvent}

\* What the callbacks may have sent the client once n more model calls
\* returned. The callbacks are coroutines run from the synchronous model call
\* of a node, outside the event loop the websocket lives on: their sends
\* reach the client or fail, as the server stack has it. Nothing reaches a
\* client that is gone, and what a send raises stays in the callback
\* (on_llm_new_token passes, the callback manager logs the rest).
Deliver(n) == IF conn = "open" THEN {cbEvents, cbEvents \cup LlmEvents(n)} ELSE {cbEvents}

\* What send_text raises on a connection whose client is gone: the
\* disconnect, or (once a send has failed, and in other server stacks)
\* another exception.
SendFailures == {"WebSocketDisconnect", "RuntimeError"}

\* Every graph's steps are streamed, the nested ones too.
Streamed_Subgraphs(l, node) == <<StateEvent(node)>>

\* graph.astream(...) of the root graph yields one chunk per step of the root
\* graph, and ws_stream sends one state event per chunk; the steps of a graph
\* invoked inside a node yield nothing.
Streamed(l, node) == IF l = "root" THEN <<StateEvent(node)>> ELSE <<>>

\* An exhausted nested graph counts as finished.
AfterStep_Returned(l, s) ==
    IF l = "sub" /\ s = "out_of_steps"
    THEN [status |-> [status EXCEPT ![l] = "done"], fault |-> fault]
    ELSE [status |-> [status EXCEPT ![l] = s],
          fault |-> IF s = "out_of_steps" THEN "GraphRecursionError" ELSE fault]

\* Status and exception after a step of the graph at level l left its loop in
\* status s: the recursion error of a nested graph is raised inside the team
\* worker's graph.invoke and leaves the root graph with it.
AfterStep(l, s) ==
    [status |-> IF l = "sub" /\ s = "out_of_steps"
                THEN [x \in Levels |-> IF x = "sub" THEN s ELSE "error"]
                ELSE [status EXCEPT ![l] = s],
     fault |-> IF s = "out_of_steps" THEN "GraphRecursionError" ELSE fault]

\* ws_stream's send of a state event to a client that is gone raises, and the
\* stream is abandoned.
SendFails ==
    \E e \in SendFailures :
       /\ status' = [status EXCEPT !["root"] = "cancelled"]
       /\ fault' = e
       /\ events' = events

\* Node `node` of the graph at level l returned after `llm` model calls: its
\* update is applied, the nodes of its Command are scheduled, the budget is
\* checked, and a step of the root graph is streamed to the client as a state
\* event.
Completes(l, node, newState, gotos, llm) ==
    LET scheduled == NextNodes(graph[l], node, gotos)
        n == step[l] + 1
    IN  /\ st' = [st EXCEPT ![l] = newState]
        /\ step' = [step EXCEPT ![l] = n]
        /\ pc' = [pc EXCEPT ![l] = scheduled]
        /\ IF Streamed(l, node) # <<>> /\ conn = "gone"
           THEN SendFails
           ELSE /\ \E s \in LoopStatus(n, scheduled) :
                      /\ status' = AfterStep(l, s).status
                      /\ fault' = AfterStep(l, s).fault
                /\ events' = events \o Streamed(l, node)
        /\ cbEvents' \in Deliver(llm)
        /\ UNCHANGED <<wsPc, graph, conn, call>>

\* The node running at level l raised e after `llm` model calls that
\* returned: nothing is applied, and the exception leaves every graph on the
\* call stack.
Raises(l, e, llm) ==
    /\ status' = [x \in Levels |-> IF x = l \/ x = "root" THEN "error" ELSE status[x]]
    /\ fault' = e
    /\ cbEvents' \in Deliver(llm)
    /\ UNCHANGED <<wsPc, events, graph, st, step, pc, conn, call>>

(* ------------------------------ actions ------------------------------- *)

NoRetriever == [inits |-> 0, collection |-> "none"]

\* No function of nodes.py is applied on its own.
NoCall ==
    [fn |-> "none",
     input |-> BlankState,
     grader |-> [d \in Docs |-> "no"],
     result |-> [question |-> UnsetSeq, documents |-> UnsetSeq],
     query |-> UnsetSeq,
     after |-> BlankState]

\* The state before the modules are imported and a client is served.
RunInit ==
    /\ wsPc = "init"
    /\ events = <<>>
    /\ cbEvents = {}
    /\ graph = [l \in Levels |-> IF l = "root" THEN "root" ELSE "none"]
    /\ st = [l \in Levels |-> BlankState]
    /\ step = [l \in Levels |-> 0]
    /\ pc = [l \in Levels |-> {}]
    /\ status = [l \in Levels |-> "idle"]
    /\ fault = "none"
    /\ lastSup = NoSupervisorYet
    /\ conn = "open"
    /\ retriever = NoRetriever

Init ==
    /\ RunInit
    /\ call = NoCall

\* get_or_create_vectorstore(persist_dir, collection_name): the persisted
\* store is loaded when there is one, else it is built from the pages and
\* persisted; either way the retriever of that collection is returned.
get_or_create_vectorstore(collection_name) == collection_name

\* The import of nodes.py (main imports agents, agents imports nodes), which
\* runs the module-level call of get_or_create_vectorstore; a module is
\* executed once per process.
ImportNodes ==
    /\ retriever.inits = 0
    /\ retriever' = [inits |-> retriever.inits + 1,
                     collection |-> get_or_create_vectorstore("rag-chroma")]
    /\ UNCHANGED <<wsPc, events, cbEvents, graph, st, step, pc, status, fault, lastSup, conn, call>>

\* The client goes away.
Disconnect ==
    /\ retriever.inits > 0
    /\ wsPc \in {"init", "streaming"}
    /\ conn = "open"
    /\ conn' = "gone"
    /\ UNCHANGED <<wsPc, events, cbEvents, graph, st, step, pc, status, fault, lastSup, retriever, call>>

\* A text that json.loads rejects.
Malformed == "{"

\* ws_stream up to the start of the stream: the prompt is received and
\* parsed, the graph is built, the starting log is sent and the root graph is
\* started on {"messages": [("user", prompt)]}; receive_text raises the
\* disconnect of a client that is gone, json.loads its own error.
WsStart ==
    /\ wsPc = "init"
    /\ retriever.inits > 0
    /\ wsPc' = "streaming"
    /\ IF conn = "gone"
       THEN /\ status' = [status EXCEPT !["root"] = "cancelled"]
            /\ fault' = "WebSocketDisconnect"
            /\ UNCHANGED <<st, events, pc>>
       ELSE \E data \in Prompts \cup {Malformed} :
               IF data = Malformed
               THEN /\ status' = [status EXCEPT !["root"] = "error"]
                    /\ fault' = "JSONDecodeError"
                    /\ UNCHANGED <<st, events, pc>>
               ELSE /\ st' = [st EXCEPT !["root"] = State(<<HumanMessage(<<data>>, Unset)>>)]
                    /\ events' = Append(events, LogEvent("Supervisor starting"))
                    /\ pc' = [pc EXCEPT !["root"] = NextNodes("root", START, {})]
                    /\ status' = [status EXCEPT !["root"] = "pending"]
                    /\ fault' = fault
    /\ UNCHANGED <<cbEvents, graph, step, lastSup, conn, retriever, call>>

\* The model calls of a supervisor step that returned.
Returned(calls) == Cardinality({i \in DOMAIN calls : calls[i].result # Throw})

\* The supervisor node of the graph at level l.
SupervisorStep(l) ==
    /\ Active(l)
    /\ pc[l] = {"supervisor"}
    /\ LET ms == Members(graph[l])
       IN  \E c1 \in ClassifierOutcomes(ms) :
           \E c2 \in (IF c1 = NoValue THEN ClassifierOutcomes(ms) ELSE {NoValue}) :
              LET r == supervisor_node(Prompt(graph[l]), st[l], c1, c2)
              IN  /\ lastSup' = [level |-> l, graph |-> graph[l], raised |-> r.raised,
                                 calls |-> r.calls, goto |-> r.command.goto,
                                 before |-> st[l]]
                  /\ IF r.raised
                     THEN Raises(l, r.raised_with, Returned(r.calls))
                     ELSE Completes(l, "supervisor",
                                    [st[l] EXCEPT !.next = r.command.update.next],
                                    {r.command.goto}, Returned(r.calls))
    /\ UNCHANGED retriever

\* An agent worker of the research or writing team: the agent is invoked on
\* the state and the content of its last message is appended under the
\* worker's name; an agent that raises takes the node with it.
\* The worker's message takes the place of the messages.
AgentNode_Overwrite(state, name, content) ==
    [state EXCEPT !.messages = <<HumanMessage(content, name)>>]

AgentNode(state, name, content) ==
    [state EXCEPT !.messages = Append(@, HumanMessage(content, name))]

AgentWorkerStep ==
    /\ Active("sub")
    /\ graph["sub"] \in {"research", "writing"}
    /\ \E w \in pc["sub"] \cap Range(Members(graph["sub"])) :
       \E result \in Contents \cup {Throw} :
          IF result = Throw
          THEN Raises("sub", "CapabilityError", 0)
          ELSE Completes("sub", w, AgentNode(st["sub"], w, <<result>>), {"supervisor"}, 1)
    /\ UNCHANGED <<lastSup, retriever>>

\* The retriever is made anew for the call.
retriever_invoke_Recreate(r) == [r EXCEPT !.inits = @ + 1]

\* retriever.invoke(question) reads the module-level retriever and leaves it
\* as it is.
retriever_invoke(r) == r

\* question = state['messages'][0].content: what retrieve asks the retriever.
retrieve_query(state) == state.messages[1].content

\* retrieve(state): the question is the content of the first message, the
\* documents are what the retriever finds for it.
retrieve(state, found) ==
    [documents |-> found, question |-> retrieve_query(state)]

\* retrieve_node: the documents, the question and one message are written.
retrieve_node(state, found) ==
    LET result == retrieve(state, found)
    IN  [state EXCEPT !.messages = Append(@, HumanMessage(<<"Retrieved">> \o result.documents,
                                                            "retrieve")),
                      !.documents = result.documents,
                      !.question = result.question]

RetrieveStep ==
    /\ Active("sub")
    /\ graph["sub"] = "rag"
    /\ pc["sub"] = {"retrieve"}
    /\ \E found \in DocLists :
          Completes("sub", "retrieve", retrieve_node(st["sub"], found), {"supervisor"}, 0)
    /\ retriever' = retriever_invoke(retriever)
    /\ UNCHANGED lastSup

\* The parameters each function of nodes.py takes, and the arguments the
\* nodes of the RAG team call it with.
NodeParameters(f) == <<"state">>
NodeArguments(f) == IF f = "retrieve" THEN <<"state">> ELSE <<"llm", "state">>

\* grade_documents_node, transform_query_node, generate_node: each calls its
\* function with (llm, state), the function takes (state), and the call
\* raises TypeError before anything is computed.
RagCallStep ==
    /\ Active("sub")
    /\ graph["sub"] = "rag"
    /\ \E w \in pc["sub"] \cap {"grade_documents", "transform_query", "generate"} :
          /\ Len(NodeArguments(w)) # Len(NodeParameters(w))
          /\ Raises("sub", "TypeError", 0)
    /\ UNCHANGED <<lastSup, retriever>>

\* The state a team worker of the root graph invokes its graph on:
\* {"messages": state["messages"][-1]}.
SubInput_History(state) == State(state.messages)

SubInput(state) == State(<<Last(state.messages)>>)

\* call_research_team, call_writing_team, call_adaptive_rag_team, up to the
\* invocation of the team's graph.
TeamStart ==
    /\ Active("root")
    /\ \E team \in pc["root"] \cap Range(Members("root")) :
          /\ graph' = [graph EXCEPT !["sub"] = TeamGraph(team)]
          /\ st' = [st EXCEPT !["sub"] = SubInput(st["root"])]
          /\ pc' = [pc EXCEPT !["sub"] = NextNodes(TeamGraph(team), START, {})]
    /\ step' = [step EXCEPT !["sub"] = 0]
    /\ status' = [status EXCEPT !["sub"] = "pending"]
    /\ UNCHANGED <<wsPc, events, cbEvents, fault, lastSup, conn, retriever, call>>

\* The message a team worker appends: the content of the last message of the
\* team's final state, under the team's name.
TeamNode_First(state, response, team) ==
    [state EXCEPT !.messages = Append(@, HumanMessage(response.messages[1].content, team))]

\* The team's final state is merged into the parent's.
TeamNode_Merge(state, response, team) ==
    [response EXCEPT !.messages = Append(state.messages,
                                         HumanMessage(Last(response.messages).content, team))]

TeamNode(state, response, team) ==
    [state EXCEPT !.messages = Append(@, HumanMessage(Last(response.messages).content, team))]

\* The team's graph finished: the team worker returns to the root graph, and
\* its step is streamed.
TeamReturn ==
    /\ wsPc = "streaming"
    /\ status["root"] = "pending"
    /\ status["sub"] = "done"
    /\ \E team \in pc["root"] :
          LET scheduled == NextNodes("root", team, {"supervisor"})
              n == step["root"] + 1
          IN  /\ st' = [l \in Levels |-> IF l = "root"
                                         THEN TeamNode(st["root"], st["sub"], team)
                                         ELSE BlankState]
              /\ step' = [l \in Levels |-> IF l = "root" THEN n ELSE 0]
              /\ pc' = [l \in Levels |-> IF l = "root" THEN scheduled ELSE {}]
              /\ IF conn = "gone"
                 THEN \E e \in SendFailures :
                         /\ status' = [l \in Levels |-> IF l = "root" THEN "cancelled" ELSE "idle"]
                         /\ fault' = e
                         /\ events' = events
                 ELSE /\ \E s \in LoopStatus(n, scheduled) :
                            /\ status' = [l \in Levels |-> IF l = "root" THEN s ELSE "idle"]
                            /\ fault' = IF s = "out_of_steps" THEN "GraphRecursionError" ELSE fault
                      /\ events' = events \o Streamed("root", team)
    /\ graph' = [graph EXCEPT !["sub"] = "none"]
    /\ UNCHANGED <<wsPc, cbEvents, lastSup, conn, retriever, call>>

\* The exception handler swallows the error as it does a disconnect.
ClosingEvents_Silent(e) ==
    IF e = "none"
    THEN <<LogEvent("Supervisor finished"), [event |-> "final", data |-> "All teams finished"]>>
    ELSE <<>>

\* The error event is sent after the closing events of a normal end.
ClosingEvents_Finally(e) ==
    <<LogEvent("Supervisor finished"), [event |-> "final", data |-> "All teams finished"]>>
        \o (IF e \in {"none", "WebSocketDisconnect"} THEN <<>> ELSE <<[event |-> "error", data |-> e]>>)

\* What ws_stream sends once the stream is over: the finishing log and the
\* final event after a normal end, nothing after a WebSocketDisconnect, the
\* error event (with the exception's text) after any other exception e.
ClosingEvents(e) ==
    IF e = "none"
    THEN <<LogEvent("Supervisor finished"), [event |-> "final", data |-> "All teams finished"]>>
    ELSE IF e = "WebSocketDisconnect"
    THEN <<>>
    ELSE <<[event |-> "error", data |-> e]>>

\* The end of ws_stream: the root graph's stream ended normally, or an
\* exception (the recursion error of an exhausted budget, what a node raised,
\* what a send or the parse raised) reached the except clauses. A send to a
\* client that is gone raises: in the try block it is handled like any other
\* exception, in the except clause it leaves ws_stream.
WsClose ==
    /\ wsPc = "streaming"
    /\ status["root"] \in {"done", "out_of_steps", "error", "cancelled"}
    /\ IF conn = "open" \/ ClosingEvents(fault) = <<>>
       THEN /\ events' = events \o ClosingEvents(fault)
            /\ wsPc' = "closed"
            /\ fault' = fault
       ELSE /\ events' = events
            /\ IF fault = "none"
               THEN \E e \in SendFailures :
                       /\ fault' = e
                       /\ wsPc' = IF ClosingEvents(e) = <<>> THEN "closed" ELSE "escaped"
               ELSE /\ fault' = fault
                    /\ wsPc' = "escaped"
    /\ UNCHANGED <<cbEvents, graph, st, step, pc, status, lastSup, conn, retriever, call>>

Next ==
    \/ ImportNodes
    \/ WsStart
    \/ Disconnect
    \/ \E l \in Levels : SupervisorStep(l)
    \/ AgentWorkerStep
    \/ RetrieveStep
    \/ RagCallStep
    \/ TeamStart
    \/ TeamReturn
    \/ WsClose

Spec == Init /\ [][Next]_vars

\* The steps of the server: ws_stream and the graph it runs.
ServerNext ==
    \/ WsStart
    \/ \E l \in Levels : SupervisorStep(l)
    \/ AgentWorkerStep
    \/ RetrieveStep
    \/ RagCallStep
    \/ TeamStart
    \/ TeamReturn
    \/ WsClose

\* ws_stream is one coroutine that goes on whenever the call it awaits
\* returns or raises; the model, the agents and the retriever are taken to
\* answer every call. The client is under no obligation.
FairSpec == Spec /\ WF_vars(ServerNext)

(* ----------------- the functions of nodes.py on their own -------------- *)

\* The relevant documents are put in front of the list.
RECURSIVE GradeLoop_Prepend(_, _, _)
GradeLoop_Prepend(documents, grader, filtered_docs) ==
    IF documents = <<>>
    THEN filtered_docs
    ELSE GradeLoop_Prepend(Tail(documents), grader,
                           IF grader[Head(documents)] = "yes"
                           THEN <<Head(documents)>> \o filtered_docs
                           ELSE filtered_docs)

\* The loop of grade_documents: each document is graded in turn and appended
\* to filtered_docs when its score is "yes".
RECURSIVE GradeLoop(_, _, _)
GradeLoop(documents, grader, filtered_docs) ==
    IF documents = <<>>
    THEN filtered_docs
    ELSE GradeLoop(Tail(documents), grader,
                   IF grader[Head(documents)] = "yes"
                   THEN Append(filtered_docs, Head(documents))
                   ELSE filtered_docs)

\* grade_documents(state), with the binary_score the grader gives each
\* document.
grade_documents(state, grader) ==
    [documents |-> GradeLoop(state.documents, grader, <<>>), question |-> state.question]

\* The rewrite throws the documents away.
transform_query_Clears(state, better_question) ==
    [documents |-> <<>>, question |-> better_question]

\* transform_query(state), with the question the rewriter gives.
transform_query(state, better_question) ==
    [documents |-> state.documents, question |-> better_question]

\* generate(state), with the generation the chain gives.
generate(state, generation) ==
    [documents |-> state.documents, question |-> state.question, generation |-> generation]

\* The state after the node of function fn wrote its update: retrieve_node,
\* grade_documents_node and transform_query_node write the documents and the
\* question of the function's result, generate_node writes a message only.
WriteBack(state, fn, result) ==
    IF fn = "generate"
    THEN state
    ELSE [state EXCEPT !.documents = result.documents, !.question = result.question]

\* The document lists of at most MaxDocs documents.
DocSeqs == UNION {[1..n -> Docs] : n \in 0..MaxDocs}

\* A state of the RAG team with a first message, the question taken from it
\* and documents, on which the functions are to be applied.
NodesInit ==
    /\ RunInit
    /\ \E q \in Questions, D \in DocSeqs :
          call = [NoCall EXCEPT
                     !.after = [State(<<HumanMessage(<<q>>, Unset)>>) EXCEPT
                                   !.question = <<q>>, !.documents = D]]

\* Function fn was applied to the current state: what it was applied to, what
\* it returned, what the retriever was asked, and the state after the node's
\* update.
Applied(fn, grader, result, query) ==
    /\ call' = [fn |-> fn, input |-> call.after, grader |-> grader, result |-> result,
                query |-> query, after |-> WriteBack(call.after, fn, result)]
    /\ UNCHANGED <<wsPc, events, cbEvents, graph, st, step, pc, status, fault, lastSup,
                   conn, retriever>>

\* retrieve is applied, and the retriever finds some documents.
RetrieveCall ==
    \E found \in DocLists :
        Applied("retrieve", NoCall.grader, retrieve(call.after, found),
                retrieve_query(call.after))

\* grade_documents is applied, with a grader that marks some of the documents
\* relevant.
GradeDocumentsCall ==
    \E grader \in [Docs -> {"yes", "no"}] :
        Applied("grade_documents", grader, grade_documents(call.after, grader), UnsetSeq)

\* transform_query is applied, and the rewriter gives a question.
TransformQueryCall ==
    \E better_question \in Rewrites :
        Applied("transform_query", NoCall.grader,
                transform_query(call.after, <<better_question>>), UnsetSeq)

\* generate is applied, and the chain gives a generation.
GenerateCall ==
    \E generation \in Generations :
        Applied("generate", NoCall.grader, generate(call.after, <<generation>>), UnsetSeq)

\* The supervisor of the RAG team steps on the current state: its Command
\* updates next.
SupervisorCall ==
    \E c1 \in Router(Members("rag")) :
        LET r == supervisor_node(Prompt("rag"), call.after, c1, NoValue)
        IN  /\ call' = [fn |-> "supervisor", input |-> call.after, grader |-> NoCall.grader,
                        result |-> NoCall.result, query |-> UnsetSeq,
                        after |-> [call.after EXCEPT !.next = r.command.update.next]]
            /\ UNCHANGED <<wsPc, events, cbEvents, graph, st, step, pc, status, fault,
                           lastSup, conn, retriever>>

NodesNext ==
    \/ RetrieveCall
    \/ GradeDocumentsCall
    \/ TransformQueryCall
    \/ GenerateCall
    \/ SupervisorCall

NodesSpec == NodesInit /\ [][NodesNext]_vars

(* ------------------------------ claims -------------------------------- *)

\* A supervisor step of the graph at level l is taken.
SupervisorStepped(l) ==
    /\ Active(l)
    /\ pc[l] = {"supervisor"}
    /\ step'[l] = step[l] + 1

\* The value the classifier gave in the supervisor step recorded in r: the
\* first call's when usable, else the second call's.
Answer(r) ==
    IF r.calls[1].result # NoValue THEN r.calls[1].result ELSE r.calls[2].result

\* C1: the directive of every supervisor step is a member of the supervisor's
\* own graph or the terminal directive, and only the supervisor or a member of
\* the graph is ever scheduled in a graph.
C1_DirectiveInOptions ==
    /\ (lastSup.level # "none" /\ ~lastSup.raised)
          => lastSup.goto \in Range(Members(lastSup.graph)) \cup {END}
    /\ \A l \in Levels :
          graph[l] # "none" => pc[l] \subseteq Range(Members(graph[l])) \cup {"supervisor"}

C1_Witness ==
    /\ lastSup.graph = "rag"
    /\ lastSup.goto = "retrieve"
    /\ pc["sub"] = {"retrieve"}
    /\ Len(st["root"].messages) = 2

\* C2: no supervisor step raises, and a step in which a classifier call failed
\* routes to the terminal directive.
C2_SupervisorNeverRaises ==
    lastSup.level # "none" =>
        /\ ~lastSup.raised
        /\ (\E i \in DOMAIN lastSup.calls : lastSup.calls[i].result = Throw)
              => lastSup.goto = END

\* C3: a supervisor step calls the classifier once or twice; twice exactly when
\* the first call gave nothing usable, the second time with the latest message
\* alone; a value either call gives is the directive (FINISH as the terminal
\* directive), and two calls without a value give the terminal directive.
C3_RetryOnceThenFailOpen ==
    lastSup.level # "none" =>
        LET calls == lastSup.calls
            latest == Last(lastSup.before.messages)
        IN  /\ Len(calls) \in {1, 2}
            /\ Len(calls) = 2 <=> calls[1].result = NoValue
            /\ calls[1].context = <<SystemMessage(Prompt(lastSup.graph)), latest>>
            /\ Len(calls) = 2 => calls[2].context = <<latest>>
            /\ (Len(calls) = 2 /\ calls[2].result = NoValue) => lastSup.goto = END
            /\ ~lastSup.raised =>
                  \/ Answer(lastSup) = NoValue /\ lastSup.goto = END
                  \/ Answer(lastSup) = FINISH /\ lastSup.goto = END
                  \/ Answer(lastSup) \notin {NoValue, FINISH}
                        /\ lastSup.goto = Answer(lastSup)

C3_Witness ==
    /\ Len(lastSup.calls) = 2
    /\ lastSup.calls[2].result = "web_scraper"
    /\ lastSup.goto = "web_scraper"
    /\ Len(lastSup.before.messages) = 2

\* C4: after a supervisor step, next holds the directive of that step, and an
\* answer of FINISH leaves the terminal marker in next.
C4_NextRecordsDirective ==
    [][\A l \in Levels :
          SupervisorStepped(l) =>
              /\ st'[l].next = lastSup'.goto
              /\ Answer(lastSup') = FINISH =>
                    (lastSup'.goto = END /\ st'[l].next = END)]_vars

C4_Witness ==
    /\ lastSup.level = "sub"
    /\ status["sub"] = "done"
    /\ lastSup.calls[1].result = FINISH
    /\ st["sub"].next = END
    /\ step["sub"] = 3

\* The team worker of the root graph whose team finished returns in this step.
TeamReturns ==
    /\ status["sub"] = "done"
    /\ status["root"] = "pending"
    /\ step'["root"] = step["root"] + 1

\* A worker of the nested graph is executed in this step.
WorkerRuns(w) ==
    /\ Active("sub")
    /\ pc["sub"] = {w}
    /\ w # "supervisor"
    /\ conn' = conn

\* C5: every execution of a worker node whose capability does not fail appends
\* exactly one message, under the worker's own name, and schedules the
\* supervisor of the same graph; so does every team worker of the root graph
\* whose team finished.
C5_WorkerAppendsOneMessage ==
    [][/\ \A w \in UNION {Range(Members(g)) : g \in Graphs} :
             (WorkerRuns(w) /\ fault' # "CapabilityError") =>
                 /\ Len(st'["sub"].messages) = Len(st["sub"].messages) + 1
                 /\ Last(st'["sub"].messages).name = w
                 /\ pc'["sub"] = {"supervisor"}
       /\ TeamReturns =>
             /\ Len(st'["root"].messages) = Len(st["root"].messages) + 1
             /\ pc["root"] = {Last(st'["root"].messages).name}
             /\ pc'["root"] = {"supervisor"}]_vars

\* C6: a team worker starts its graph on the parent's latest message alone,
\* the parent's state stands still while the team runs, and when the team has
\* finished the parent has one message more: the content of the team's last
\* message, under the team's name.
C6_NestedInvocation ==
    [][/\ (status["sub"] = "idle" /\ status'["sub"] = "pending") =>
             /\ st'["sub"].messages = <<Last(st["root"].messages)>>
             /\ st'["root"] = st["root"]
       /\ status["sub"] = "pending" => st'["root"] = st["root"]
       /\ TeamReturns =>
             \E team \in pc["root"] :
                 st'["root"].messages =
                     Append(st["root"].messages,
                            HumanMessage(Last(st["sub"].messages).content, team))]_vars

C6_Witness ==
    /\ Len(st["root"].messages) = 3
    /\ st["root"].messages[2].name = "research_team"
    /\ st["root"].messages[3] = HumanMessage(<<"a2">>, "writing_team")
    /\ status["sub"] = "idle"

\* C7: the scheduled node of a graph changes only from start to the
\* supervisor, from the supervisor to the worker its directive names or to
\* nothing when its directive is terminal, and from a worker to the
\* supervisor; a supervisor step whose directive names a worker schedules
\* that worker; a finished graph schedules nothing more.
C7_TransitionRelation ==
    [][\A l \in Levels :
          /\ pc'[l] # pc[l] =>
                \/ status[l] = "idle" /\ pc[l] = {} /\ pc'[l] = {"supervisor"}
                \/ /\ pc[l] = {"supervisor"}
                   /\ pc'[l] = {lastSup'.goto}
                   /\ lastSup'.goto \in Range(Members(graph[l]))
                \/ pc[l] = {"supervisor"} /\ pc'[l] = {} /\ lastSup'.goto = END
                \/ /\ pc[l] \subseteq Range(Members(graph[l]))
                   /\ pc[l] # {}
                   /\ pc'[l] = {"supervisor"}
          /\ SupervisorStepped(l) =>
                pc'[l] = IF lastSup'.goto = END THEN {} ELSE {lastSup'.goto}
          /\ status[l] = "done" => (pc[l] = {} /\ pc'[l] = {})
          /\ status'[l] = "done" => pc'[l] = {}]_vars

C7_Witness ==
    /\ pc["root"] = {"writing_team"}
    /\ status["root"] = "pending"
    /\ graph["sub"] = "writing"
    /\ pc["sub"] = {"chart_generator"}

\* C8: a graph whose classifier answers FINISH in the first call of its first
\* supervisor step is finished after that step, with one step made, nothing
\* scheduled and its messages as they were (for the root graph: while the
\* client is there to be sent the step).
C8_FinishOnFirstCall ==
    [][\A l \in Levels :
          (/\ SupervisorStepped(l)
           /\ step[l] = 0
           /\ lastSup'.calls[1].result = FINISH
           /\ l = "root" => conn = "open") =>
              /\ status'[l] = "done"
              /\ step'[l] = 1
              /\ pc'[l] = {}
              /\ st'[l].messages = st[l].messages]_vars

C8_Witness ==
    /\ status["root"] = "done"
    /\ step["root"] = 1
    /\ lastSup.calls[1].result = FINISH
    /\ Len(st["root"].messages) = 1
    /\ wsPc = "closed"

\* The number of events of kind k sent so far.
Sent(k) == Cardinality({i \in DOMAIN events : events[i].event = k})

C10_AbortDistinctFromCompletion ==
    /\ fault = "GraphRecursionError" => Sent("final") = 0
    /\ (wsPc = "closed" /\ fault = "GraphRecursionError" /\ conn = "open") =>
          (Last(events).event = "error" /\ Sent("error") = 1)
    /\ (wsPc = "closed" /\ status["root"] = "done" /\ conn = "open") =>
          (Last(events).event = "final" /\ Sent("error") = 0 /\ Sent("final") = 1)
    /\ Sent("final") > 0 => status["root"] = "done"

C10_Witness ==
    /\ wsPc = "closed"
    /\ status["sub"] = "out_of_steps"
    /\ Last(events) = [event |-> "error", data |-> "GraphRecursionError"]

\* The workers that wrap an agent (research and writing teams).
AgentWorkers == Range(Members("research")) \cup Range(Members("writing"))

\* C11: an agent worker whose step leaves budget to go on never ends the run,
\* whether or not its capability fails: the step appends exactly one message
\* under the worker's name, schedules the supervisor, and the run stays
\* pending with no exception recorded.
C11_WorkerContainsFailure ==
    [][\A w \in AgentWorkers :
          (WorkerRuns(w) /\ step["sub"] + 1 < RecursionLimit) =>
              /\ Len(st'["sub"].messages) = Len(st["sub"].messages) + 1
              /\ Last(st'["sub"].messages).name = w
              /\ pc'["sub"] = {"supervisor"}
              /\ status'["sub"] = "pending"
              /\ status'["root"] = "pending"
              /\ fault' = fault]_vars

Closing == {i \in DOMAIN events : events[i].event \in {"final", "error"}}

\* The order of the events of a run: at most one closing event, and nothing
\* after it; final only when the root graph finished, error only after an
\* exception; every state event after the starting log; and with an error
\* event sent, one state event sent for every step the root graph completed.
ClosingOrder ==
    /\ Cardinality(Closing) <= 1
    /\ \A i \in Closing : i = Len(events)
    /\ Sent("final") > 0 => (status["root"] = "done" /\ fault = "none")
    /\ Sent("error") > 0 => (status["root"] # "done" /\ fault # "none")
    /\ \A i \in DOMAIN events :
          events[i].event = "state" =>
              (i > 1 /\ events[1] = LogEvent("Supervisor starting"))
    /\ Sent("error") > 0 => Sent("state") = step["root"]
    /\ (wsPc = "closed" /\ conn = "open") => Cardinality(Closing) = 1

\* C13: a run whose client stays connected ends, with exactly one closing
\* event, final after the root graph finished or error after an exception,
\* never both; the starting log is sent before every state event, nothing is
\* sent after the closing event, and the state events of all steps completed
\* before an exception are sent before the error event.
C13_OneClosingEvent ==
    /\ []ClosingOrder
    /\ (wsPc = "streaming") ~> (conn = "gone" \/ (wsPc = "closed" /\ Cardinality(Closing) = 1))

C13_Witness ==
    /\ wsPc = "closed"
    /\ conn = "open"
    /\ fault = "TypeError"
    /\ Sent("state") = 3
    /\ Last(events) = [event |-> "error", data |-> "TypeError"]

\* The event kinds of the client contract.
EventKinds == {"log", "token", "state", "final", "error"}

\* C14: every event record sent to the client, by ws_stream or by a model
\* callback, is of one of the kinds log, token, state, final, error.
C14_OnlyContractKinds ==
    \A e \in Range(events) \cup cbEvents : e.event \in EventKinds

\* The state events sent so far, in the order sent.
StateEvents ==
    LET IsState(e) == e.event = "state"
    IN  SelectSeq(events, IsState)

\* C15: while the client is connected, the state events sent are those of the
\* completed steps of the root graph, one each and in the order of the steps:
\* the supervisor's steps alternating with the team workers', each team
\* worker's under the name of the message it appended; the steps of a nested
\* graph add none.
C15_OneStateEventPerRootStep ==
    /\ Len(StateEvents) <= step["root"]
    /\ conn = "open" => Len(StateEvents) = step["root"]
    /\ \A i \in DOMAIN StateEvents :
          StateEvents[i].data = IF i % 2 = 1
                                THEN "supervisor"
                                ELSE st["root"].messages[(i \div 2) + 1].name

C15_Witness ==
    /\ conn = "open"
    /\ step["root"] = 3
    /\ step["sub"] = 2
    /\ status["sub"] = "pending"
    /\ StateEvents = <<StateEvent("supervisor"), StateEvent("writing_team"),
                       StateEvent("supervisor")>>

\* At most one node of the hierarchy is scheduled: one per graph, and in the
\* root graph the team worker whose graph is running.
OneNodeAtATime ==
    /\ \A l \in Levels : Cardinality(pc[l]) <= 1
    /\ ~(Active("root") /\ Active("sub"))
    /\ status["sub"] = "pending" =>
          /\ status["root"] = "pending"
          /\ \E team \in Range(Members("root")) :
                pc["root"] = {team} /\ graph["sub"] = TeamGraph(team)

\* C16: execution is sequential and depth-first: at most one node is
\* scheduled in each graph and only one graph is executing; a supervisor step
\* whose directive names a worker schedules exactly that worker; while a
\* nested graph has not finished, its parent makes no step and starts no
\* other graph; and every step works on the state the step before it left,
\* keeping its messages.
C16_SequentialDepthFirst ==
    [][/\ OneNodeAtATime'
       /\ \A l \in Levels :
             (SupervisorStepped(l) /\ lastSup'.goto # END) => pc'[l] = {lastSup'.goto}
       /\ status["sub"] = "pending" =>
             /\ st'["root"] = st["root"]
             /\ step'["root"] = step["root"]
             /\ pc'["root"] = pc["root"]
             /\ graph'["sub"] = graph["sub"]
             /\ step'["sub"] >= step["sub"]
       /\ \A l \in Levels :
             step'[l] = step[l] + 1 =>
                 /\ SubSeq(st'[l].messages, 1, Len(st[l].messages)) = st[l].messages
                 /\ SupervisorStepped(l) => lastSup'.before = st[l]]_vars

C16_Witness ==
    /\ status["sub"] = "pending"
    /\ status["root"] = "pending"
    /\ pc["root"] = {"research_team"}
    /\ pc["sub"] = {"web_scraper"}
    /\ step["sub"] = 3
    /\ Len(st["sub"].messages) = 2

\* C17: a nested graph makes at most its budget of steps, counted from its
\* own start, and is stopped when it has made them with a node still
\* scheduled; its exhaustion ends the root run with the recursion error: the
\* team worker appends no message, the root graph makes no further step, and
\* a connected client is sent the error event as the closing event.
C17_NestedBudgetIsFatal ==
    /\ step["sub"] <= RecursionLimit
    /\ status["sub"] = "pending" => step["sub"] < RecursionLimit
    /\ (step["sub"] = RecursionLimit /\ pc["sub"] # {}) => status["sub"] = "out_of_steps"
    /\ status["sub"] = "out_of_steps" =>
          /\ step["sub"] = RecursionLimit
          /\ status["root"] = "error"
          /\ fault = "GraphRecursionError"
          /\ Last(st["root"].messages) = st["sub"].messages[1]
          /\ \E team \in Range(Members("root")) : pc["root"] = {team}
          /\ (wsPc = "closed" /\ conn = "open") =>
                Last(events) = [event |-> "error", data |-> "GraphRecursionError"]

C17_Witness ==
    /\ wsPc = "closed"
    /\ conn = "open"
    /\ graph["sub"] = "research"
    /\ status["sub"] = "out_of_steps"
    /\ pc["sub"] = {"supervisor"}
    /\ Len(st["sub"].messages) = 3
    /\ Len(st["root"].messages) = 1
    /\ Sent("error") = 1

\* C18: no exception leaves ws_stream, and nothing is sent to a client that
\* has gone away.
C18_NothingEscapesWsStream ==
    [][/\ wsPc' # "escaped"
       /\ conn = "gone" => (events' = events /\ cbEvents' = cbEvents)]_vars

\* A retrieve step of the RAG team is taken.
RetrieveRuns ==
    /\ WorkerRuns("retrieve")
    /\ step'["sub"] = step["sub"] + 1

RagSupervisorNext ==
    /\ Active("sub")
    /\ graph["sub"] = "rag"
    /\ pc["sub"] = {"supervisor"}

\* C20: at every supervisor step of the RAG team, each of the four workers is
\* a possible next node, whatever has run before: no order among them is
\* enforced.
C20_AnyRagWorkerNext ==
    RagSupervisorNext =>
        \A w \in {"retrieve", "grade_documents", "transform_query", "generate"} :
            ENABLED (SupervisorStep("sub") /\ pc'["sub"] = {w})

\* generate was entered in a RAG team run in which no retrieve has run.
C20_Witness ==
    /\ graph["sub"] = "rag"
    /\ pc["sub"] = {"generate"}
    /\ step["sub"] = 1
    /\ st["sub"].documents = UnsetSeq
    /\ Len(st["sub"].messages) = 1
    /\ fault = "TypeError"

\* s is t with some of its elements left out.
RECURSIVE IsSubsequence(_, _)
IsSubsequence(s, t) ==
    IF s = <<>> THEN TRUE
    ELSE IF t = <<>> THEN FALSE
    ELSE IF Head(s) = Head(t) THEN IsSubsequence(Tail(s), Tail(t))
    ELSE IsSubsequence(s, Tail(t))

C22_RetrieveUsesCurrentQuestion ==
    [][(call.fn = "transform_query" /\ call'.fn = "retrieve") =>
           /\ call'.query = call.after.question
           /\ call'.after.question = call.after.question]_vars

IsPrefix(s, t) == Len(s) <= Len(t) /\ SubSeq(t, 1, Len(s)) = s

\* The graph instance at level l is the same after the step: it is not the
\* nested graph that ended and whose team worker returns.
Continues(l) == ~(l = "sub" /\ status["sub"] = "done" /\ status'["sub"] = "idle")

\* C23: across every step of a graph instance the messages before the step
\* are a prefix of the messages after it, and a supervisor step leaves the
\* messages as they were.
C23_MessagesAppendOnly ==
    [][\A l \in Levels :
          /\ Continues(l) => IsPrefix(st[l].messages, st'[l].messages)
          /\ SupervisorStepped(l) => st'[l].messages = st[l].messages]_vars

C23_Witness ==
    /\ Len(st["root"].messages) = 2
    /\ Len(st["sub"].messages) = 2
    /\ st["sub"].messages[2].name = "doc_writer"
    /\ lastSup.level = "sub"
    /\ lastSup.before.messages = st["sub"].messages
    /\ step["sub"] = 3

\* What a supervisor step leaves for a caller to see: the Command (its goto
\* and its update of the state), whether it raised, and the events of the
\* model calls that returned. The step's state event names the node only.
Observable(r) ==
    [command |-> r.command, raised |-> r.raised,
     calls |-> Returned(r.calls), sent |-> LlmEvents(Returned(r.calls))]

\* C24: at every supervisor step, a terminal directive by fail-open (no
\* usable value from either classifier call) and a terminal directive the
\* classifier chose (FINISH from the second call) leave different things to
\* see.
C24_FailOpenObservable ==
    \A l \in Levels :
        (Active(l) /\ pc[l] = {"supervisor"}) =>
            Observable(supervisor_node(Prompt(graph[l]), st[l], NoValue, NoValue))
                # Observable(supervisor_node(Prompt(graph[l]), st[l], NoValue, FINISH))

\* C25: a team worker's step changes the parent's state by one appended
\* message carrying the content of the team's last message, and leaves the
\* parent's next, question and documents as they were, whatever the team's
\* own state held; and a team's graph starts with one message and with next,
\* question and documents unset.
C25_OnlyContentCrossesBack ==
    [][/\ TeamReturns =>
             /\ st'["root"].next = st["root"].next
             /\ st'["root"].question = st["root"].question
             /\ st'["root"].documents = st["root"].documents
             /\ \E team \in pc["root"] :
                   st'["root"] =
                       [st["root"] EXCEPT !.messages =
                           Append(@, HumanMessage(Last(st["sub"].messages).content, team))]
       /\ (status["sub"] = "idle" /\ status'["sub"] = "pending") =>
             /\ Len(st'["sub"].messages) = 1
             /\ st'["sub"].next = Unset
             /\ st'["sub"].question = UnsetSeq
             /\ st'["sub"].documents = UnsetSeq]_vars

C25_Witness ==
    /\ status["sub"] = "idle"
    /\ step["root"] = 2
    /\ st["root"].messages[2] = HumanMessage(<<"Retrieved", "d1", "d2">>, "adaptive_rag_team")
    /\ st["root"].next = "adaptive_rag_team"
    /\ st["root"].question = UnsetSeq
    /\ st["root"].documents = UnsetSeq

====
